---- MODULE Spec2Model ----
(***************************************************************************)
(* bitmap_test: load an image, list its distinct RGBA colours by           *)
(* descending luminance, label them, ask the operator for a replacement   *)
(* of each colour, substitute every pixel and save the result             *)
(* (src/src/main.rs).                                                      *)
(*                                                                         *)
(* A colour is a 4-tuple <<r, g, b, a>> of bytes.  A line of text is a     *)
(* sequence of one-character strings, so that trimming, splitting and      *)
(* parsing are computed character by character as the code does.           *)
(***************************************************************************)
EXTENDS Integers, Sequences, FiniteSets, TLC

VARIABLES
    pc,            \* position of main
    file,          \* the image the path names: [width, height, raw]
    keyboard,      \* which lines the operator may type at a colour prompt
    rgba_image,    \* img.to_rgba8(): [width, height, raw]
    unique_pixels, \* HashSet<[u8; 4]>
    sorted_pixels, \* Vec<[u8; 4]>
    i,             \* index of the prompt loop
    new_value,     \* the trimmed line of the last iteration, <<>> outside the loop
    remap,         \* HashMap<[u8; 4], [u8; 4]>
    console,       \* what was printed, in order
    stdin_read,    \* number of read_line calls so far
    output,        \* RgbaImage: [width, height, pix]
    k,             \* number of pixels enumerate_pixels has yielded
    saved          \* the file written by save, <<>> while there is none

vars == <<pc, file, keyboard, rgba_image, unique_pixels, sorted_pixels, i,
          new_value, remap, console, stdin_read, output, k, saved>>

-----------------------------------------------------------------------------
(* Bounds of the model.                                                    *)

\* Largest number of pixels of an image of the small family.
MaxPixels == 2

\* The wide family has images of 8 .. 8 + MaxExtra distinct colours.
MaxExtra == 2

\* Number of iteration orders of the HashSet that are tried.
NumSeeds == 4

-----------------------------------------------------------------------------
(* Sequences.                                                              *)

RECURSIVE Flatten(_)
Flatten(ss) == IF ss = <<>> THEN <<>> ELSE Head(ss) \o Flatten(Tail(ss))

Reverse(s) == [p \in 1..Len(s) |-> s[Len(s) + 1 - p]]

Rotate(s, n) == [p \in 1..Len(s) |-> s[((p - 1 + n) % Len(s)) + 1]]

-----------------------------------------------------------------------------
(* brightness and the sort.                                                *)

\* 10^4 times the real value of 0.2126*r + 0.7152*g + 0.0722*b.  The f64
\* evaluation is within 1e-12 of the real value and two different real values
\* are at least 1e-4 apart, so colours of different weight compare as their
\* weights do.  The colours of equal weight used below are equal as f64 too.
BrightnessUnweighted(pixel) == pixel[1] + pixel[2] + pixel[3]

brightness(pixel) == 2126 * pixel[1] + 7152 * pixel[2] + 722 * pixel[3]

CmpSelf(a, b) ==
    IF brightness(b) < brightness(b) THEN "Less"
    ELSE IF brightness(b) > brightness(b) THEN "Greater" ELSE "Equal"

\* The comparator of sort_by, brightness(b).partial_cmp(&brightness(a)): Less
\* when a goes before b.
Cmp(a, b) ==
    IF brightness(b) < brightness(a) THEN "Less"
    ELSE IF brightness(b) > brightness(a) THEN "Greater" ELSE "Equal"

\* slice::sort_by is a stable sort: e goes after every element that does not
\* compare Greater than it.
RECURSIVE InsertStable(_, _)
InsertStable(e, s) ==
    IF s = <<>> THEN <<e>>
    ELSE IF Cmp(Head(s), e) = "Greater" THEN <<e>> \o s
    ELSE <<Head(s)>> \o InsertStable(e, Tail(s))

RECURSIVE SortFrom(_, _)
SortFrom(s, done) ==
    IF s = <<>> THEN done ELSE SortFrom(Tail(s), InsertStable(Head(s), done))

sort_by(s) == SortFrom(s, <<>>)

-----------------------------------------------------------------------------
(* The HashSet of colours and its iteration order.                         *)

ChunkOpaque(raw, p) == <<raw[4 * p + 1], raw[4 * p + 2], raw[4 * p + 3], 255>>

\* The p-th chunk (from 0) of chunks_exact(4).
Chunk(raw, p) == <<raw[4 * p + 1], raw[4 * p + 2], raw[4 * p + 3], raw[4 * p + 4]>>

Chunks(raw) == {Chunk(raw, p) : p \in 0..((Len(raw) \div 4) - 1)}

LexLess(a, b) ==
    \E p \in 1..4 : a[p] < b[p] /\ \A q \in 1..(p - 1) : a[q] = b[q]

RECURSIVE Canon(_)
Canon(S) ==
    IF S = {} THEN <<>>
    ELSE LET m == CHOOSE c \in S : \A d \in S \ {c} : LexLess(c, d)
         IN  <<m>> \o Canon(S \ {m})

\* The iteration order of a HashSet depends on the keys of its hasher, which
\* are drawn afresh in every run: the orders tried are the rotations of one
\* listing of the set and of its reverse.
Seeds == 0..(NumSeeds - 1)

HashOrder(S, seed) ==
    IF S = {} THEN <<>>
    ELSE LET base == Rotate(Canon(S), (seed \div 2) % Cardinality(S))
         IN  IF seed % 2 = 1 THEN Reverse(base) ELSE base

-----------------------------------------------------------------------------
(* Labels.                                                                 *)

labels == <<"Background White", "Highlight Bright", "Highlight Dark",
            "Midtone", "Shade Bright", "Shade Dark", "Outline", "Black">>

LabelRelative(n) ==
    IF n < Len(labels) THEN labels[n + 1] ELSE "Extra " \o ToString(n - Len(labels))

\* labels.get(i).copied().unwrap_or(&format!("Extra {}", i))
Label(n) ==
    IF n < Len(labels) THEN labels[n + 1] ELSE "Extra " \o ToString(n)

-----------------------------------------------------------------------------
(* Text: str::trim, str::split(','), str::parse::<u8>.                     *)

IsSpace(ch) == ch \in {" ", "\t", "\n", "\r"}

RECURSIVE TrimStart(_)
TrimStart(s) ==
    IF s # <<>> /\ IsSpace(Head(s)) THEN TrimStart(Tail(s)) ELSE s

RECURSIVE TrimEnd(_)
TrimEnd(s) ==
    IF s # <<>> /\ IsSpace(s[Len(s)]) THEN TrimEnd(SubSeq(s, 1, Len(s) - 1)) ELSE s

Trim(s) == TrimEnd(TrimStart(s))

\* Position of the first comma of s, 0 when it has none.
FirstComma(s) ==
    IF \E p \in 1..Len(s) : s[p] = ","
    THEN CHOOSE p \in 1..Len(s) : s[p] = "," /\ \A q \in 1..(p - 1) : s[q] # ","
    ELSE 0

RECURSIVE Split(_)
Split(s) ==
    LET c == FirstComma(s)
    IN  IF c = 0 THEN <<s>>
        ELSE <<SubSeq(s, 1, c - 1)>> \o Split(SubSeq(s, c + 1, Len(s)))

Digits == <<"0", "1", "2", "3", "4", "5", "6", "7", "8", "9">>

DigitVal(ch) ==
    IF \E d \in 1..10 : Digits[d] = ch
    THEN (CHOOSE d \in 1..10 : Digits[d] = ch) - 1
    ELSE -1

\* The digits of a u8 with the checked multiply and add of the parser:
\* -1 stands for Err.
RECURSIVE ParseDigits(_, _)
ParseDigits(s, acc) ==
    IF s = <<>> THEN acc
    ELSE LET d == DigitVal(Head(s))
         IN  IF d < 0 \/ acc * 10 + d > 255 THEN -1
             ELSE ParseDigits(Tail(s), acc * 10 + d)

\* parse::<u8>: empty is an error, a lone sign is an error, a leading '+' is
\* skipped, a '-' is no digit of an unsigned type.
ParseU8(s) ==
    IF s = <<>> THEN -1
    ELSE IF Len(s) = 1 /\ Head(s) \in {"+", "-"} THEN -1
    ELSE IF Head(s) = "+" THEN ParseDigits(Tail(s), 0)
    ELSE ParseDigits(s, 0)

RECURSIVE FilterMapParse(_)
FilterMapParse(toks) ==
    IF toks = <<>> THEN <<>>
    ELSE LET v == ParseU8(Trim(Head(toks)))
         IN  (IF v < 0 THEN <<>> ELSE <<v>>) \o FilterMapParse(Tail(toks))

\* new_value.split(',').filter_map(|s| s.trim().parse::<u8>().ok()).collect()
Parts(value) == FilterMapParse(Split(value))

\* What the iteration of a colour inserts into remap for the trimmed line.
Replacement(value, pixel) ==
    IF value = <<>> THEN pixel
    ELSE LET parts == Parts(value)
         IN  IF Len(parts) = 4
             THEN <<parts[1], parts[2], parts[3], parts[4]>>
             ELSE pixel

\* Whether the iteration prints "Invalid input, keeping original.".
Warns(value) == value # <<>> /\ Len(Parts(value)) # 4

-----------------------------------------------------------------------------
(* The inputs: images and operator lines.                                  *)

Zero == <<0, 0, 0, 0>>

\* Two colours of equal luminance, one of them at two alpha values, and
\* transparent black.
Palette == {<<241, 63, 29, 255>>, <<12, 134, 0, 255>>, <<12, 134, 0, 128>>, Zero}

Image(w, h, pixels) == [width |-> w, height |-> h, raw |-> Flatten(pixels)]

NoImage == [width |-> 0, height |-> 0, raw |-> <<>>]

\* Every image of at most MaxPixels pixels over the palette.
SmallImages ==
    UNION {{Image(w, h, pixels) : pixels \in [1..(w * h) -> Palette]} :
           <<w, h>> \in {d \in (1..MaxPixels) \X (1..MaxPixels) :
                           d[1] * d[2] <= MaxPixels}}

\* n distinct colours of pairwise different luminance, not in its order.
Ramp(j) == <<(j * 77) % 256, (j * 131) % 256, (j * 29) % 256, 255 - j>>

\* Two rows that hold n distinct colours.
WideImage(n) ==
    LET w == (n + 1) \div 2
    IN  Image(w, 2, [p \in 1..(2 * w) |-> Ramp((p - 1) % n)])

WideImages == {WideImage(n) : n \in Len(labels)..(Len(labels) + MaxExtra)}

RECURSIVE Join(_)
Join(toks) ==
    IF toks = <<>> THEN <<>>
    ELSE IF Len(toks) = 1 THEN Head(toks)
    ELSE Head(toks) \o <<",">> \o Join(Tail(toks))

\* A line as read_line returns it, with its line feed.
Line(toks) == Join(toks) \o <<"\n">>

Eof == <<>>

N241 == <<"2", "4", "1">>
N63 == <<"6", "3">>
N29 == <<"2", "9">>
N255 == <<"2", "5", "5">>

\* The lines the code accepts name the colours (241, 63, 29, 255) and
\* (0, 0, 0, 0) of the palette.
Lines ==
    { Eof,
      Line(<<>>),
      Line(<<<<" ", "\t">>>>),
      Line(<<N241, N63, N29, N255>>),
      Line(<<<<" ", "2", "4", "1", " ">>, <<" ", "6", "3">>, <<"2", "9", " ">>,
             <<"0", "2", "5", "5", " ">>>>),
      Line(<<<<"+", "2", "4", "1">>, N63, N29, N255>>),
      Line(<<<<"0">>, <<"0">>, <<"0">>, <<"0">>>>),
      Line(<<N241, N63, N29>>),
      Line(<<N241, N63, N29, N255, <<"5">>>>),
      Line(<<N241, N63, <<"x">>, N29, N255>>),
      Line(<<N241, N63, <<>>, N29, N255>>),
      Line(<<N241, N63, N29, N255, <<>>>>),
      Line(<<<<"2", "5", "6">>, N63, N29, N255>>),
      Line(<<N241, N63, N29, <<"2", "5", "6">>, N255>>),
      Line(<<<<"-", "1">>, N63, N29, N255>>),
      Line(<<<<"2", "4", " ", "1">>, N63, N29, N255>>),
      Line(<<<<"2", "4", "1", ";", "6", "3", ";", "2", "9", ";", "2", "5", "5">>>>),
      Line(<<<<"x">>>>) }

FewLines == {Line(<<>>), Line(<<<<"9">>, <<"8">>, <<"7">>, <<"2", "5", "5">>>>)}

\* The lines the operator of this run may type.
Typed == IF keyboard = "Lines" THEN Lines ELSE FewLines

OutputNames == {"out.png"}

-----------------------------------------------------------------------------
(* main.                                                                   *)

\* The path has been read.  An image of the small family is run with every
\* line of Lines, an image of the wide family with the two lines of FewLines.
Init ==
    /\ pc = "open"
    /\ \/ file \in SmallImages /\ keyboard = "Lines"
       \/ file \in WideImages /\ keyboard = "FewLines"
    /\ rgba_image = NoImage
    /\ unique_pixels = {}
    /\ sorted_pixels = <<>>
    /\ i = 0
    /\ new_value = <<>>
    /\ remap = <<>>
    /\ console = <<[kind |-> "path"]>>
    /\ stdin_read = 1
    /\ output = [width |-> 0, height |-> 0, pix |-> <<>>]
    /\ k = 0
    /\ saved = <<>>

\* ImageReader::open(path).decode() succeeds; to_rgba8.
LoadImage ==
    /\ pc = "open"
    /\ pc' = "collect"
    /\ rgba_image' = file
    /\ console' = Append(console, [kind |-> "loaded"])
    /\ UNCHANGED <<file, keyboard, unique_pixels, sorted_pixels, i, new_value,
                   remap, stdin_read, output, k, saved>>

\* open or decode fails: expect panics.
LoadFails ==
    /\ pc = "open"
    /\ pc' = "panicked"
    /\ UNCHANGED <<file, keyboard, rgba_image, unique_pixels, sorted_pixels, i,
                   new_value, remap, console, stdin_read, output, k, saved>>

\* The colours of the image are inserted into the set and the set is
\* collected into the vector in its iteration order.
CollectUnique ==
    /\ pc = "collect"
    /\ pc' = "sort"
    /\ unique_pixels' = Chunks(rgba_image.raw)
    /\ \E seed \in Seeds : sorted_pixels' = HashOrder(unique_pixels', seed)
    /\ UNCHANGED <<file, keyboard, rgba_image, i, new_value, remap, console,
                   stdin_read, output, k, saved>>

SortPixels ==
    /\ pc = "sort"
    /\ pc' = "prompt"
    /\ sorted_pixels' = sort_by(sorted_pixels)
    /\ UNCHANGED <<file, keyboard, rgba_image, unique_pixels, i, new_value,
                   remap, console, stdin_read, output, k, saved>>

LoopDoneEarly == i + 1 >= Len(sorted_pixels)

\* The for loop over sorted_pixels.iter().enumerate() is exhausted.
LoopDone == i >= Len(sorted_pixels)

Insert(map, key, value) ==
    [c \in DOMAIN map \cup {key} |-> IF c = key THEN value ELSE map[c]]

\* One iteration of the prompt loop: print the label and the colour, read a
\* line, insert into remap.
Prompt ==
    /\ pc = "prompt"
    /\ ~LoopDone
    /\ \E line \in Typed :
         LET pixel == sorted_pixels[i + 1]
             value == Trim(line)
             asked == [kind |-> "colour", label |-> Label(i), pixel |-> pixel]
         IN  /\ new_value' = value
             /\ remap' = Insert(remap, pixel, Replacement(value, pixel))
             /\ console' = console \o <<asked>> \o
                  (IF Warns(value) THEN <<[kind |-> "invalid"]>> ELSE <<>>)
    /\ stdin_read' = stdin_read + 1
    /\ i' = i + 1
    /\ UNCHANGED <<pc, file, keyboard, rgba_image, unique_pixels, sorted_pixels,
                   output, k, saved>>

\* RgbaImage::new(img.width(), img.height()): every sample is 0.  The
\* variables of the loop body are gone.
AllocOutput ==
    /\ pc = "prompt"
    /\ LoopDone
    /\ pc' = "substitute"
    /\ output' = [width |-> rgba_image.width, height |-> rgba_image.height,
                  pix |-> [p \in 1..(rgba_image.width * rgba_image.height) |-> Zero]]
    /\ k' = 0
    /\ new_value' = <<>>
    /\ UNCHANGED <<file, keyboard, rgba_image, unique_pixels, sorted_pixels, i,
                   remap, console, stdin_read, saved>>

PixelIndexTransposed(img, x, y) == x * img.height + y + 1

\* put_pixel: the place of pixel (x, y) in the row-major buffer, from 1.
PixelIndex(img, x, y) == y * img.width + x + 1

LookupChained(rgba) ==
    LET once == IF rgba \in DOMAIN remap THEN remap[rgba] ELSE rgba
    IN  IF once \in DOMAIN remap THEN remap[once] ELSE once

\* remap.get(&rgba).unwrap_or(&rgba)
Lookup(rgba) == IF rgba \in DOMAIN remap THEN remap[rgba] ELSE rgba

\* One iteration of the loop over enumerate_pixels, which yields the pixels
\* row by row.
PutPixel ==
    /\ pc = "substitute"
    /\ k < rgba_image.width * rgba_image.height
    /\ LET x == k % rgba_image.width
           y == k \div rgba_image.width
           rgba == Chunk(rgba_image.raw, k)
       IN  output' = [output EXCEPT !.pix[PixelIndex(output, x, y)] = Lookup(rgba)]
    /\ k' = k + 1
    /\ UNCHANGED <<pc, file, keyboard, rgba_image, unique_pixels, sorted_pixels,
                   i, new_value, remap, console, stdin_read, saved>>

\* The prompt for the name of the output file and its read_line.
AskName ==
    /\ pc = "substitute"
    /\ k >= rgba_image.width * rgba_image.height
    /\ pc' = "save"
    /\ \E name \in OutputNames :
         console' = Append(console, [kind |-> "name", name |-> name])
    /\ stdin_read' = stdin_read + 1
    /\ UNCHANGED <<file, keyboard, rgba_image, unique_pixels, sorted_pixels, i,
                   new_value, remap, output, k, saved>>

Save ==
    /\ pc = "save"
    /\ pc' = "done"
    /\ saved' = <<output>>
    /\ console' = Append(console, [kind |-> "saved"])
    /\ UNCHANGED <<file, keyboard, rgba_image, unique_pixels, sorted_pixels, i,
                   new_value, remap, stdin_read, output, k>>

\* save fails: expect panics.
SaveFails ==
    /\ pc = "save"
    /\ pc' = "panicked"
    /\ UNCHANGED <<file, keyboard, rgba_image, unique_pixels, sorted_pixels, i,
                   new_value, remap, console, stdin_read, output, k, saved>>

Next ==
    \/ LoadImage
    \/ LoadFails
    \/ CollectUnique
    \/ SortPixels
    \/ Prompt
    \/ AllocOutput
    \/ PutPixel
    \/ AskName
    \/ Save
    \/ SaveFails

Spec == Init /\ [][Next]_vars

-----------------------------------------------------------------------------
(* Properties.                                                             *)

\* The colour of the iteration that has just ended, at the loop head.
AfterPrompt == pc = "prompt" /\ i >= 1

LastPixel == sorted_pixels[i]

LastWarned == console[Len(console)].kind = "invalid"

\* The line holds exactly 4 comma-separated values, each a byte.
FourBytes(value) ==
    LET toks == Split(value)
    IN  /\ Len(toks) = 4
        /\ \A p \in 1..Len(toks) : ParseU8(Trim(toks[p])) >= 0

\* C1: after the iteration of colour c on a non-blank line that holds a token
\* that is no integer of 0..255, or that does not hold exactly 4
\* comma-separated values, remap[c] = c and the warning was printed.
C1_InvalidLineKeepsOriginal ==
    (AfterPrompt /\ new_value # <<>> /\ ~FourBytes(new_value))
        => (remap[LastPixel] = LastPixel /\ LastWarned)

\* C2: after the iteration of colour c, remap[c] differs from c only when the
\* line holds exactly 4 comma-separated bytes; when it does, remap[c] is those
\* four values in the order R, G, B, A; on a blank line remap[c] = c and no
\* warning was printed.
C2_MappedOnlyByFourBytes ==
    AfterPrompt =>
        LET toks == Split(new_value)
        IN  /\ remap[LastPixel] # LastPixel => FourBytes(new_value)
            /\ FourBytes(new_value) =>
                 remap[LastPixel] = [p \in 1..4 |-> ParseU8(Trim(toks[p]))]
            /\ new_value = <<>> => (remap[LastPixel] = LastPixel /\ ~LastWarned)

\* The pixel of the source image at (x, y).
SourcePixel(x, y) ==
    LET q == 4 * (y * file.width + x)
    IN  <<file.raw[q + 1], file.raw[q + 2], file.raw[q + 3], file.raw[q + 4]>>

SourceColours ==
    {SourcePixel(x, y) : <<x, y>> \in (0..(file.width - 1)) \X (0..(file.height - 1))}

PassDone ==
    \/ pc \in {"save", "done"}
    \/ pc = "substitute" /\ k = file.width * file.height

\* C3: after the substitution pass the output has the width and the height
\* of the source, the output pixel at every (x, y) is remap[source pixel at
\* (x, y)], and an output pixel is all-zero only if the table maps its source
\* colour to (0, 0, 0, 0).
C3_OutputIsRemappedSource ==
    PassDone =>
        /\ output.width = file.width
        /\ output.height = file.height
        /\ Len(output.pix) = file.width * file.height
        /\ \A x \in 0..(file.width - 1), y \in 0..(file.height - 1) :
             LET src == SourcePixel(x, y)
                 out == output.pix[y * file.width + x + 1]
             IN  /\ src \in DOMAIN remap
                 /\ out = remap[src]
                 /\ out = Zero => remap[src] = Zero

\* A finished run on an image of two rows and several columns in which one
\* colour was replaced and another kept.
C3_Witness ==
    /\ pc = "done"
    /\ file.width > file.height /\ file.height >= 2
    /\ \E p \in 1..Len(output.pix) : output.pix[p] # Chunk(file.raw, p - 1)
    /\ \E p \in 1..Len(output.pix) : output.pix[p] = Chunk(file.raw, p - 1)
    /\ \E p \in 1..Len(output.pix) : Chunk(file.raw, p - 1) # Chunk(file.raw, 0)

Collected == rgba_image # NoImage /\ pc # "collect"

\* C4: the colour list holds every RGBA 4-tuple of the image exactly once and
\* no other 4-tuple; 4-tuples that differ in one component, alpha included,
\* are different colours.
C4_EveryColourOnce ==
    Collected =>
        LET colours == SourceColours
        IN  /\ \A c \in colours :
                 Cardinality({p \in 1..Len(sorted_pixels) : sorted_pixels[p] = c}) = 1
            /\ \A p \in 1..Len(sorted_pixels) : sorted_pixels[p] \in colours

\* The list holds two colours that differ in alpha only.
C4_Witness ==
    /\ Collected
    /\ \E p, q \in 1..Len(sorted_pixels) :
         /\ sorted_pixels[p][4] # sorted_pixels[q][4]
         /\ \A n \in 1..3 : sorted_pixels[p][n] = sorted_pixels[q][n]

Luminance(c) == 2126 * c[1] + 7152 * c[2] + 722 * c[3]

Sorted == Collected /\ pc # "sort"

\* C5: the sorted list is in descending luminance: for positions p < q the
\* luminance of sorted[p] is at least that of sorted[q], alpha not counting.
C5_DescendingLuminance ==
    Sorted =>
        \A p, q \in 1..Len(sorted_pixels) :
            p < q => Luminance(sorted_pixels[p]) >= Luminance(sorted_pixels[q])

\* A sorted list of 3 or more colours that is not the listing the set was
\* first collected in.
C5_Witness ==
    /\ Sorted
    /\ Len(sorted_pixels) >= 3
    /\ \A seed \in Seeds : sorted_pixels # HashOrder(unique_pixels, seed)
    /\ Luminance(sorted_pixels[1]) > Luminance(sorted_pixels[Len(sorted_pixels)])

IsColourPrompt(e) == e.kind = "colour"

Asked == SelectSeq(console, IsColourPrompt)

Vocabulary == <<"Background White", "Highlight Bright", "Highlight Dark",
                "Midtone", "Shade Bright", "Shade Dark", "Outline", "Black">>

ExpectedLabel(n) == IF n < 8 THEN Vocabulary[n + 1] ELSE "Extra " \o ToString(n)

\* C6: the colour at position n (from 0) of the sorted list is shown with the
\* n-th label of the vocabulary when n < 8 and with "Extra n" when n >= 8, and
\* no two colours are shown with the same label.
C6_LabelByPosition ==
    LET asked == Asked
    IN  /\ \A j \in 1..Len(asked) :
             /\ asked[j].pixel = sorted_pixels[j]
             /\ asked[j].label = ExpectedLabel(j - 1)
        /\ \A j, m \in 1..Len(asked) : j # m => asked[j].label # asked[m].label

\* The 8th and the 10th colour have been shown.
C6_Witness ==
    /\ Len(Asked) >= 10
    /\ Asked[8].label = "Black"
    /\ Asked[10].label = "Extra 9"

\* The orders the sorted list can have over the iteration orders of the set.
PossibleOrders == {sort_by(HashOrder(unique_pixels, seed)) : seed \in Seeds}

DistinctLuminance ==
    \A c, d \in unique_pixels : c # d => Luminance(c) # Luminance(d)

\* sort_by has just returned; sorted_pixels is not assigned again.
JustSorted == pc = "prompt" /\ i = 0

\* C7: the order sort_by leaves the list in is the same in every run on an
\* image whose colours have pairwise different luminance, and with two
\* colours of equal luminance it differs between runs.
C7_OrderDeterminedIffNoTie ==
    JustSorted =>
        /\ sorted_pixels \in PossibleOrders
        /\ DistinctLuminance <=> Cardinality(PossibleOrders) = 1

\* Two colours that differ in alpha only, listed in the order another run
\* would not list them in.
C7_Witness ==
    /\ JustSorted
    /\ ~DistinctLuminance
    /\ sorted_pixels # sort_by(HashOrder(unique_pixels, 0))
    /\ \E p, q \in 1..Len(sorted_pixels) :
         /\ p < q
         /\ sorted_pixels[p][4] > sorted_pixels[q][4]
         /\ \A n \in 1..3 : sorted_pixels[p][n] = sorted_pixels[q][n]

NameAsked == \E p \in 1..Len(console) : console[p].kind = "name"

\* C8: in a run that loaded the image the colours are prompted in the order
\* of the sorted list, each once, one line read per colour; no pixel is
\* written before every colour was prompted; the name of the output is asked
\* and the file saved only after the whole substitution pass.
C8_PromptsThenPassThenSave ==
    rgba_image # NoImage =>
        LET asked == Asked
            colours == SourceColours
        IN  /\ Len(asked) = i
            /\ \A j \in 1..Len(asked) : asked[j].pixel = sorted_pixels[j]
            /\ stdin_read = 1 + i + (IF NameAsked THEN 1 ELSE 0)
            /\ (pc \in {"substitute", "save", "done"} \/ k > 0) =>
                 /\ i = Len(sorted_pixels)
                 /\ i = Cardinality(colours)
                 /\ DOMAIN remap = colours
            /\ (NameAsked \/ saved # <<>>) => k = file.width * file.height

\* A saved run on an image of several colours.
C8_Witness ==
    /\ pc = "done"
    /\ saved = <<output>>
    /\ Len(sorted_pixels) >= 2
    /\ k = file.width * file.height

\* C9 as claimed: there is a mode that remaps one colour selected by its
\* label, so when the first colour is prompted the program has read, besides
\* the path, a line that selects the mode or the label.
C9_SelectionReadBeforePrompts ==
    Len(Asked) >= 1 => stdin_read >= Len(Asked) + 2

PrintedKinds == {console[p].kind : p \in 1..Len(console)}

\* C9 as amended: there is one mode.  No line is read between the path and
\* the first colour prompt, nothing but the path prompt, the load message,
\* colour prompts, warnings, the name prompt and the save message is printed,
\* and a run that reaches the substitution pass has prompted every colour of
\* the image.
C9_EveryColourWalked ==
    rgba_image # NoImage =>
        LET asked == Asked
        IN  /\ PrintedKinds \subseteq
                 {"path", "loaded", "colour", "invalid", "name", "saved"}
            /\ pc = "prompt" => stdin_read = Len(asked) + 1
            /\ pc \in {"substitute", "save", "done"} =>
                 {asked[j].pixel : j \in 1..Len(asked)} = unique_pixels

\* A finished run that replaced one colour of three or more and kept the
\* others by blank answers.
C9_Witness ==
    /\ pc = "done"
    /\ Cardinality(unique_pixels) >= 3
    /\ Cardinality({c \in unique_pixels : remap[c] # c}) = 1
    /\ "invalid" \notin PrintedKinds

\* The pixels of the source image, row by row.
SourcePixels ==
    [p \in 1..(file.width * file.height) |->
        SourcePixel((p - 1) % file.width, (p - 1) \div file.width)]

\* C10: the substitution is simultaneous.  A replacement that is itself a
\* colour of the image with another replacement is not replaced again;
\* mapping A to B and B to A swaps the two in the output; with every colour
\* mapped to itself the output equals the source pixel for pixel.
C10_SimultaneousSubstitution ==
    PassDone =>
        LET src == SourcePixels
        IN  /\ \A p \in 1..Len(src) :
                 LET once == remap[src[p]]
                 IN  (once \in DOMAIN remap /\ remap[once] # once)
                        => output.pix[p] # remap[once]
            /\ \A A, B \in DOMAIN remap :
                 (remap[A] = B /\ remap[B] = A) =>
                     \A p \in 1..Len(src) :
                         /\ src[p] = A => output.pix[p] = B
                         /\ src[p] = B => output.pix[p] = A
            /\ (\A c \in DOMAIN remap : remap[c] = c) => output.pix = src

\* A finished run that swapped the two colours of its image.
C10_Witness ==
    /\ pc = "done"
    /\ \E A, B \in DOMAIN remap :
         /\ A # B
         /\ remap[A] = B /\ remap[B] = A
         /\ \E p, q \in 1..Len(output.pix) :
              /\ SourcePixels[p] = A /\ output.pix[p] = B
              /\ SourcePixels[q] = B /\ output.pix[q] = A

====
